---- MODULE Spec2Model ----
(***************************************************************************)
(* Extraction of coarse-grained classifiers from a fine-grained CNN.       *)
(*                                                                         *)
(* The model covers the functions of the notebooks:                        *)
(*   create_SCSM, create_coarse_grained_model(model, init_classes, k)      *)
(*     (CNN-weights strategy),                                             *)
(*   find_hyponyms, create_coarse_grained_model(model, hypernyms)          *)
(*     (WordNet hyponyms strategy),                                        *)
(*   map_classes (baseline).                                               *)
(*                                                                         *)
(* Arrays are sequences (1-based) that hold 0-based class indices, so     *)
(* a[i+1] is Python's a[i].  Real numbers are exact rationals             *)
(* [num, den]; den = 0 stands for the non-finite floats (0/0 is NaN).     *)
(***************************************************************************)
EXTENDS Integers, Sequences, FiniteSets, TLC

\* Number of fine-grained classes of the base model.
NClasses == 3

\* Longest list of coarse categories passed to create_coarse_grained_model.
MaxCategories == 2

\* Longest array of predicted class indices passed to map_classes.
MaxPredictions == 2

(***************************************************************************)
(* Exact arithmetic.                                                       *)
(***************************************************************************)
Abs(x) == IF x < 0 THEN -x ELSE x

Sign(x) == IF x < 0 THEN -1 ELSE IF x > 0 THEN 1 ELSE 0

RECURSIVE GCD(_, _)
GCD(a, b) == IF b = 0 THEN a ELSE GCD(b, a % b)

NaN == [num |-> 0, den |-> 0]

IsNaN(x) == x.den = 0 /\ x.num = 0

\* Floating-point division n / d: 0/0 is NaN, x/0 is +-inf.
Divide(n, d) ==
  IF d = 0 THEN [num |-> Sign(n), den |-> 0]
  ELSE LET g == GCD(Abs(n), Abs(d))
           s == IF d < 0 THEN -1 ELSE 1
       IN  [num |-> (s * n) \div g, den |-> (s * d) \div g]

Real(n) == Divide(n, 1)

Neg(x) == [num |-> -x.num, den |-> x.den]

\* x < y on finite rationals (both denominators positive).
Less(x, y) == x.num * y.den < y.num * x.den

RECURSIVE SeqSum(_)
SeqSum(s) == IF s = <<>> THEN 0 ELSE Head(s) + SeqSum(Tail(s))

(***************************************************************************)
(* NumPy and Python primitives used by the notebooks.                      *)
(***************************************************************************)
\* The array with the entries of f, each computed once.
Array(f) == SubSeq(f, 1, Len(f))

Raised(exc) == [exc |-> exc, value |-> <<>>]

Returned(v) == [exc |-> "", value |-> v]

\* np.moveaxis(a, 0, -1) of a 2-D array: the transpose.
MoveAxis(a) ==
  IF a = <<>> THEN <<>>
  ELSE Array([c \in 1..Len(a[1]) |-> Array([r \in 1..Len(a) |-> a[r][c]])])

\* Python slice s[:k].
SliceTo(s, k) ==
  LET n    == Len(s)
      stop == IF k < 0 THEN (IF n + k < 0 THEN 0 ELSE n + k)
              ELSE (IF k > n THEN n ELSE k)
  IN  SubSeq(s, 1, stop)

\* An integer index i into an axis of length n is valid in [-n, n).
IndexInBounds(i, n) == -n <= i /\ i < n

\* A valid index counted from the end when negative.
NormIndex(i, n) == IF i < 0 THEN i + n ELSE i

\* np.array(list): an empty list gives a float64 array, a list of ints int64.
NpArray(ids) == [dtype |-> IF ids = <<>> THEN "float64" ELSE "int64", data |-> ids]

\* A faulty indexing that reads the entry after the one asked for; the
\* singleton property must tell it from NumPy's.
TakeShifted(a, idx) ==
  IF idx.dtype # "int64" THEN Raised("IndexError")
  ELSE IF \E p \in 1..Len(idx.data) : ~IndexInBounds(idx.data[p], Len(a))
       THEN Raised("IndexError")
  ELSE Returned(Array([p \in 1..Len(idx.data) |->
                         a[((NormIndex(idx.data[p], Len(a)) + 1) % Len(a)) + 1]]))

\* a[idx] with an index array: IndexError for a non-integer index array or
\* an index out of bounds, else the selected entries in index order.
Take(a, idx) ==
  IF idx.dtype # "int64" THEN Raised("IndexError")
  ELSE IF \E p \in 1..Len(idx.data) : ~IndexInBounds(idx.data[p], Len(a))
       THEN Raised("IndexError")
  ELSE Returned(Array([p \in 1..Len(idx.data) |->
                         a[NormIndex(idx.data[p], Len(a)) + 1]]))

\* A faulty mean that forgets the division; the mean-value property must
\* tell it from np.mean.
SumOnly(s) == Divide(SeqSum(s), 1)

\* np.mean over a 1-D selection: sum / count (0/0 = NaN for an empty one).
Mean(s) == Divide(SeqSum(s), Len(s))

\* np.mean(weights[:, idx], axis=1): one mean per feature row.
MeanColumns(weights, idx) ==
  LET first == Take(weights[1], idx)
  IN  IF first.exc # "" THEN first
      ELSE Returned(Array([f \in 1..Len(weights) |->
                             Mean(Take(weights[f], idx).value)]))

\* np.mean(biases[idx], axis=0).
MeanBias(biases, idx) ==
  LET sel == Take(biases, idx)
  IN  IF sel.exc # "" THEN sel ELSE Returned(Mean(sel.value))

(***************************************************************************)
(* create_SCSM: cosine similarity of the class columns, argsort of -CSM.   *)
(***************************************************************************)
Dot(a, b) == SeqSum([f \in 1..Len(a) |-> a[f] * b[f]])

\* sklearn normalize() divides by the L2 norm, a zero norm replaced by 1.
NormSqOr1(a) == IF Dot(a, a) = 0 THEN 1 ELSE Dot(a, a)

\* A faulty similarity that normalises by the first column's norm only; the
\* symmetry property must tell it from the cosine.
CosineLeftNorm(a, b) ==
  LET d == Dot(a, b)
  IN  Divide(Sign(d) * d * d, NormSqOr1(a) * NormSqOr1(a))

\* cosine_similarity entry, held as sign(c) * c^2 (strictly monotone in the
\* cosine c, so that it orders and equates exactly like c with no roots).
Cosine(a, b) ==
  LET d == Dot(a, b)
  IN  Divide(Sign(d) * d * d, NormSqOr1(a) * NormSqOr1(b))

\* CSM = cosine_similarity(classes_i, classes_j), classes = moveaxis(kernel).
CSM(weights) ==
  LET classes == MoveAxis(weights)
  IN  Array([i \in 1..Len(classes) |-> Array([j \in 1..Len(classes) |->
         Cosine(classes[i], classes[j])])])

\* All orderings of the indices 0..n-1.
Orderings(n) ==
  {p : p \in {q \in [1..n -> 0..(n - 1)] : \A i, j \in 1..n : i # j => q[i] # q[j]}}

ClassOrderings == Orderings(NClasses)

\* np.argsort(keys) with the default kind: indices in ascending key order;
\* the default sort is not stable, equal keys come in an unspecified order.
ArgSort(keys) ==
  {p \in (IF Len(keys) = NClasses THEN ClassOrderings ELSE Orderings(Len(keys))) :
     \A i \in 1..(Len(keys) - 1) : ~Less(keys[p[i + 1] + 1], keys[p[i] + 1])}

\* -a of a 1-D array.
NegRow(a) == Array([j \in 1..Len(a) |-> Neg(a[j])])

\* np.argsort(-CSM, axis=1): for each class index, the rows it can give
\* (each row is sorted on its own).
SortedRows(csm) ==
  Array([i \in 1..Len(csm) |-> ArgSort(NegRow(csm[i]))])

\* The matrices with rows `rows`, each row taken from sorted[row].
RECURSIVE SCSMOver(_, _)
SCSMOver(sorted, rows) ==
  IF rows = {} THEN {<<>>}
  ELSE LET i == CHOOSE r \in rows : \A q \in rows : r <= q
       IN  {(i :> row) @@ m : row \in sorted[i + 1],
                              m \in SCSMOver(sorted, rows \ {i})}

\* create_SCSM(model): every matrix it can return, as row index -> ordering.
create_SCSM(weights) ==
  SCSMOver(SortedRows(CSM(weights)), 0..(Len(weights[1]) - 1))

(***************************************************************************)
(* CNN-weights strategy: create_coarse_grained_model(model, init_classes,  *)
(* k_most_similar_classes).                                                *)
(***************************************************************************)
\* The first of the outcomes that raised, if any.
FirstRaised(outs) ==
  LET bad == {j \in 1..Len(outs) : outs[j].exc # ""}
  IN  IF bad = {} THEN Returned(<<>>)
      ELSE outs[CHOOSE j \in bad : \A q \in bad : j <= q]

\* One pass of the loop body: k_most_similar_per_init_class =
\* np.squeeze(np.expand_dims(SCSM[init_class], axis=1))[:k].
KMostSimilar(SCSM, n, init_class, k) ==
  IF ~IndexInBounds(init_class, n) THEN Raised("IndexError")
  ELSE IF n = 1 THEN Raised("IndexError")  \* squeeze gives a 0-d array
  ELSE Returned([dtype |-> "int64",
                 data  |-> SliceTo(SCSM[NormIndex(init_class, n)], k)])

\* weights_for_init and bias_for_init of one category.
CoarseClass(weights, biases, sel) ==
  IF sel.exc # "" THEN sel
  ELSE LET w == MeanColumns(weights, sel.value)
           b == MeanBias(biases, sel.value)
       IN  IF w.exc # "" THEN w
           ELSE IF b.exc # "" THEN b
           ELSE Returned([weights |-> w.value, bias |-> b.value])

\* A faulty assembly that lays the categories out last to first; the
\* ordering property must tell it from the notebook's.
NewDenseReversed(outs) ==
  IF FirstRaised(outs).exc # "" THEN FirstRaised(outs)
  ELSE LET C == Len(outs)
       IN  Returned([weights |-> MoveAxis(Array([j \in 1..C |->
                                            outs[C + 1 - j].value.weights])),
                     biases  |-> Array([j \in 1..C |-> outs[C + 1 - j].value.bias])])

\* new_weights = np.moveaxis(np.array(coarse_grained_weights), 0, -1),
\* new_biases = np.array(coarse_grained_bias), set on a Dense layer of
\* len(categories) units.
NewDense(outs) ==
  IF FirstRaised(outs).exc # "" THEN FirstRaised(outs)
  ELSE Returned([weights |-> MoveAxis(Array([j \in 1..Len(outs) |->
                                                outs[j].value.weights])),
                 biases  |-> Array([j \in 1..Len(outs) |-> outs[j].value.bias])])

create_coarse_grained_model(weights, biases, SCSM, init_classes, k) ==
  LET n == Len(weights[1])
  IN  NewDense(Array([j \in 1..Len(init_classes) |->
        CoarseClass(weights, biases, KMostSimilar(SCSM, n, init_classes[j], k))]))

\* The rows of SCSM that the loop reads.
RowsRead(n, init_classes) ==
  {NormIndex(init_classes[j], n) :
     j \in {q \in 1..Len(init_classes) : IndexInBounds(init_classes[q], n)}}

(***************************************************************************)
(* WordNet: synsets are numbered by their offset; the lexicon is fixed,    *)
(* the hyponym relation and the ImageNet vocabulary are state.             *)
(***************************************************************************)
Names == {"dog", "puppy", "terrier", "cat", "qwertyuiop"}

\* wn.synsets(name): the senses of a name, primary sense first; the empty
\* list for a name WordNet does not hold.
Synsets(name) ==
  CASE name = "dog"     -> <<1>>
    [] name = "puppy"   -> <<2>>
    [] name = "terrier" -> <<3>>
    [] name = "cat"     -> <<4, 1>>
    [] OTHER            -> <<>>

\* The synsets of the taxonomy: those the lexicon names.
Concepts == UNION {{Synsets(name)[p] : p \in 1..Len(Synsets(name))} : name \in Names}

DigitChars == <<"1", "2", "3", "4", "5", "6", "7", "8", "9">>

\* The ImageNet class id (wnid) of a synset offset, as characters: n0<d>.
WNID(offset) == <<"n", "0", DigitChars[offset]>>

\* str.split(sep) on a sequence of characters.
RECURSIVE Split(_, _)
Split(str, sep) ==
  LET hits == {p \in 1..Len(str) : str[p] = sep}
  IN  IF hits = {} THEN <<str>>
      ELSE LET p == CHOOSE h \in hits : \A q \in hits : h <= q
           IN  <<SubSeq(str, 1, p - 1)>> \o Split(SubSeq(str, p + 1, Len(str)), sep)

DigitValue(ch) ==
  IF ch = "0" THEN 0 ELSE CHOOSE d \in 1..9 : DigitChars[d] = ch

\* int(str) of a string of decimal digits.
RECURSIVE ParseInt(_)
ParseInt(str) ==
  IF str = <<>> THEN 0
  ELSE 10 * ParseInt(SubSeq(str, 1, Len(str) - 1)) + DigitValue(str[Len(str)])

\* synset.closure(lambda s: s.hyponyms()): every synset reached by one or
\* more hyponym steps; closure() never yields the synset it starts from.
RECURSIVE Reach(_, _, _)
Reach(hypo, frontier, seen) ==
  IF frontier = {} THEN seen
  ELSE LET next == UNION {hypo[c] : c \in frontier}
       IN  Reach(hypo, next \ seen, seen \cup next)

\* A closure that also yields the synset it starts from; the descendant
\* property must tell it from nltk's.
ClosureWithSynset(hypo, synset) == Reach(hypo, {synset}, {synset})

Closure(hypo, synset) == Reach(hypo, {synset}, {}) \ {synset}

\* The list ids: the class indices, in ascending order, whose synset is in
\* the closure.
RECURSIVE FilterIds(_, _, _)
FilterIds(offsets, hyponyms, idx) ==
  IF idx > Len(offsets) THEN <<>>
  ELSE (IF offsets[idx] \in hyponyms THEN <<idx - 1>> ELSE <<>>)
       \o FilterIds(offsets, hyponyms, idx + 1)

find_hyponyms(hypo, wnids, hypernym_name) ==
  IF Synsets(hypernym_name) = <<>> THEN Raised("IndexError")  \* [][0]
  ELSE LET hyponyms == Closure(hypo, Synsets(hypernym_name)[1])
           offsets  == Array([c \in 1..Len(wnids) |->
                                ParseInt(Split(wnids[c], "n")[2])])
       IN  Returned(NpArray(FilterIds(offsets, hyponyms, 1)))

(***************************************************************************)
(* WordNet hyponyms strategy: create_coarse_grained_model(model,           *)
(* hypernyms).                                                             *)
(***************************************************************************)
create_coarse_grained_model_hyponyms(weights, biases, hypo, wnids, hypernyms) ==
  NewDense(Array([j \in 1..Len(hypernyms) |->
    CoarseClass(weights, biases, find_hyponyms(hypo, wnids, hypernyms[j]))]))

(***************************************************************************)
(* Baseline: map_classes(prediction).                                      *)
(***************************************************************************)
\* i in ids_array: (ids_array == i).any()
Contains(arr, i) == \E p \in 1..Len(arr.data) : arr.data[p] = i

\* The dictionary d over range(1000), the indices of the vocabulary.
LabelDict(n, cat_classes, dog_classes) ==
  [i \in 0..(n - 1) |-> IF Contains(cat_classes, i) THEN 0
                        ELSE IF Contains(dog_classes, i) THEN 1
                        ELSE 2]

\* A faulty dictionary that asks for dogs before cats; the labelling property
\* must tell it from the notebook's.
map_classes_dog_first(hypo, wnids, prediction) ==
  LET dog_classes == find_hyponyms(hypo, wnids, "dog")
      cat_classes == find_hyponyms(hypo, wnids, "cat")
  IN  IF dog_classes.exc # "" THEN dog_classes
      ELSE IF cat_classes.exc # "" THEN cat_classes
      ELSE IF prediction = <<>> THEN Raised("ValueError")
      ELSE Returned(Array([p \in 1..Len(prediction) |->
             IF Contains(dog_classes.value, prediction[p]) THEN 1
             ELSE IF Contains(cat_classes.value, prediction[p]) THEN 0
             ELSE 2]))

\* np.vectorize(d.get)(prediction); np.vectorize refuses an input of size 0
\* when no otypes are given.
map_classes(hypo, wnids, prediction) ==
  LET dog_classes == find_hyponyms(hypo, wnids, "dog")
      cat_classes == find_hyponyms(hypo, wnids, "cat")
  IN  IF dog_classes.exc # "" THEN dog_classes
      ELSE IF cat_classes.exc # "" THEN cat_classes
      ELSE IF prediction = <<>> THEN Raised("ValueError")
      ELSE LET d == LabelDict(Len(wnids), cat_classes.value, dog_classes.value)
           IN  Returned(Array([p \in 1..Len(prediction) |-> d[prediction[p]]]))

(***************************************************************************)
(* State: the base model's last layer, WordNet's hyponym relation, the     *)
(* ImageNet vocabulary, and the last call with what it returned or raised. *)
(***************************************************************************)
VARIABLES
  kernel,    \* model.layers[-1].get_weights()[0], feature rows x class columns
  bias,      \* model.layers[-1].get_weights()[1]
  hyponyms,  \* synset offset -> its direct hyponyms
  wnids,     \* class index + 1 -> ImageNet class id
  call,      \* the last call: function, arguments, the SCSM it computed
  ret        \* its outcome: the exception raised, or the value returned

vars == <<kernel, bias, hyponyms, wnids, call, ret>>

\* Fine-grained classes the base models are built from, each with its weight
\* column and bias: two proportional columns, one between the axes, one
\* pointing away from all of them and a zero column.
ClassPool ==
  << [w |-> <<1, 0>>,   b |-> 1],
     [w |-> <<2, 0>>,   b |-> 3],
     [w |-> <<1, 1>>,   b |-> 0],
     [w |-> <<-1, -1>>, b |-> 4],
     [w |-> <<0, 0>>,   b |-> 2] >>

\* The classes with weight columns [1,0], [0,1], [1,1], [-1,-1] (repeated
\* as needed) and biases 1, 3, 5, ...
ExampleClasses ==
  [c \in 1..NClasses |->
     [w |-> <<<<1, 0>>, <<0, 1>>, <<1, 1>>, <<-1, -1>>>>[((c - 1) % 4) + 1],
      b |-> 2 * c - 1]]

\* Base models: NClasses different classes of the pool in any order, and
\* the example.
Models ==
  {[c \in 1..NClasses |-> ClassPool[pos[c]]] :
     pos \in {q \in [1..NClasses -> 1..Len(ClassPool)] :
                \A i, j \in 1..NClasses : i # j => q[i] # q[j]}}
  \cup {ExampleClasses}

KernelOf(classes) == MoveAxis([c \in 1..Len(classes) |-> classes[c].w])

BiasOf(classes) == [c \in 1..Len(classes) |-> classes[c].b]

\* Is d reached from c by one or more steps of h?
RECURSIVE Reaches(_, _, _, _)
Reaches(h, c, d, fuel) ==
  fuel > 0 /\ (d \in h[c] \/ \E e \in h[c] : Reaches(h, e, d, fuel - 1))

\* Acyclic hyponym relations over the synsets.
Taxonomies ==
  {h \in [Concepts -> SUBSET Concepts] :
     \A c \in Concepts : ~Reaches(h, c, c, Cardinality(Concepts))}

\* dog > {puppy, terrier}, terrier > {puppy}, cat apart.
ExampleTaxonomy ==
  [c \in Concepts |-> IF c = 1 THEN {2, 3} ELSE IF c = 3 THEN {2} ELSE {}]

\* The vocabulary whose class c is synset c + shift (wrapping around).
Vocabulary(shift) ==
  [c \in 1..NClasses |-> WNID(((c - 1 + shift) % Cardinality(Concepts)) + 1)]

Vocabularies == {Vocabulary(0), Vocabulary(1)}

SeqsUpTo(S, n) == UNION {[1..m -> S] : m \in 1..n}

\* Seed class indices tried: the first and the last class, one below the
\* first and one past the last.
Seeds == {-1, 0, NClasses - 1, NClasses}

\* Arrays of predicted class indices, np.argmax over the model's outputs:
\* none for an empty dataset, else indices of the vocabulary.
Predictions == {<<>>} \cup SeqsUpTo(0..(NClasses - 1), MaxPredictions)

\* Neighbourhood sizes tried.
Ks == -1..(NClasses + 1)

NoCall == [fn |-> "", args |-> <<>>, SCSM |-> <<>>]

\* The outcome of a call, one field per kind of value the functions return:
\* the SCSM, an array of class ids, a new last layer.
NoArray == [dtype |-> "", data |-> <<>>]

NoHead == [weights |-> <<>>, biases |-> <<>>]

NoReturn ==
  [exc |-> "", SCSM |-> <<>>, ids |-> NoArray, head |-> NoHead, mapped |-> <<>>]

ReturnIds(out) ==
  IF out.exc # "" THEN [NoReturn EXCEPT !.exc = out.exc]
  ELSE [NoReturn EXCEPT !.ids = out.value]

ReturnMapped(out) ==
  IF out.exc # "" THEN [NoReturn EXCEPT !.exc = out.exc]
  ELSE [NoReturn EXCEPT !.mapped = out.value]

ReturnHead(out) ==
  IF out.exc # "" THEN [NoReturn EXCEPT !.exc = out.exc]
  ELSE [NoReturn EXCEPT !.head = out.value]

Init ==
  /\ \E classes \in Models : kernel = KernelOf(classes) /\ bias = BiasOf(classes)
  /\ hyponyms = ExampleTaxonomy
  /\ wnids = Vocabulary(0)
  /\ call = NoCall
  /\ ret = NoReturn

InitWordNet ==
  /\ kernel = KernelOf(ExampleClasses)
  /\ bias = BiasOf(ExampleClasses)
  /\ hyponyms \in Taxonomies
  /\ wnids \in Vocabularies
  /\ call = NoCall
  /\ ret = NoReturn

\* A call is made on the idle notebook state; each behaviour is one call.
Idle == call = NoCall

Call_create_SCSM ==
  /\ Idle
  /\ \E SCSM \in create_SCSM(kernel) :
    /\ call' = [fn |-> "create_SCSM", args |-> <<>>, SCSM |-> SCSM]
    /\ ret' = [NoReturn EXCEPT !.SCSM = SCSM]
    /\ UNCHANGED <<kernel, bias, hyponyms, wnids>>

\* A faulty build that clears the base layer's kernel while it works; the
\* frame property must tell it from the notebook's.
Call_create_coarse_grained_model_in_place ==
  /\ Idle
  /\ \E init_classes \in SeqsUpTo(Seeds, MaxCategories), k \in Ks :
      /\ call' = [fn |-> "create_coarse_grained_model",
                  args |-> <<init_classes, k>>, SCSM |-> <<>>]
      /\ ret' = NoReturn
      /\ kernel' = Array([f \in 1..Len(kernel) |->
                            Array([c \in 1..Len(kernel[f]) |-> 0])])
      /\ UNCHANGED <<bias, hyponyms, wnids>>

Call_create_coarse_grained_model ==
  /\ Idle
  /\ \E sorted \in {SortedRows(CSM(kernel))} :
     \E init_classes \in SeqsUpTo(Seeds, MaxCategories) :
     \* the rows of create_SCSM(model) that no seed indexes are never read
     \E SCSM \in SCSMOver(sorted, RowsRead(Len(kernel[1]), init_classes)) :
     \E k \in Ks :
      /\ call' = [fn |-> "create_coarse_grained_model",
                  args |-> <<init_classes, k>>, SCSM |-> SCSM]
      /\ ret' = ReturnHead(create_coarse_grained_model(kernel, bias, SCSM,
                                                       init_classes, k))
      /\ UNCHANGED <<kernel, bias, hyponyms, wnids>>

Call_find_hyponyms ==
  /\ Idle
  /\ \E hypernym_name \in Names :
    /\ call' = [fn |-> "find_hyponyms", args |-> <<hypernym_name>>, SCSM |-> <<>>]
    /\ ret' = ReturnIds(find_hyponyms(hyponyms, wnids, hypernym_name))
    /\ UNCHANGED <<kernel, bias, hyponyms, wnids>>

Call_create_coarse_grained_model_hyponyms ==
  /\ Idle
  /\ \E hypernyms \in SeqsUpTo(Names, MaxCategories) :
    /\ call' = [fn |-> "create_coarse_grained_model_hyponyms",
                args |-> <<hypernyms>>, SCSM |-> <<>>]
    /\ ret' = ReturnHead(create_coarse_grained_model_hyponyms(
                            kernel, bias, hyponyms, wnids, hypernyms))
    /\ UNCHANGED <<kernel, bias, hyponyms, wnids>>

Call_map_classes ==
  /\ Idle
  /\ \E prediction \in Predictions :
    /\ call' = [fn |-> "map_classes", args |-> <<prediction>>, SCSM |-> <<>>]
    /\ ret' = ReturnMapped(map_classes(hyponyms, wnids, prediction))
    /\ UNCHANGED <<kernel, bias, hyponyms, wnids>>

Next ==
  \/ Call_create_SCSM
  \/ Call_create_coarse_grained_model
  \/ Call_find_hyponyms
  \/ Call_create_coarse_grained_model_hyponyms

Spec == Init /\ [][Next]_vars

\* The WordNet functions over every taxonomy and vocabulary.
NextWordNet ==
  \/ Call_find_hyponyms
  \/ Call_create_coarse_grained_model_hyponyms
  \/ Call_map_classes

SpecWordNet == InitWordNet /\ [][NextWordNet]_vars

\* Base models whose number of classes is not the vocabulary's: find_hyponyms
\* always reads the ImageNet vocabulary, whatever model is passed.
MismatchedModels ==
  {SubSeq(ExampleClasses, 1, NClasses - 1), Append(ExampleClasses, ClassPool[4])}

InitVocabulary ==
  /\ \E classes \in MismatchedModels :
       kernel = KernelOf(classes) /\ bias = BiasOf(classes)
  /\ hyponyms \in Taxonomies
  /\ wnids \in Vocabularies
  /\ call = NoCall
  /\ ret = NoReturn

\* The WordNet functions on a model that does not have the vocabulary's
\* classes.
SpecVocabulary == InitVocabulary /\ [][NextWordNet]_vars

(***************************************************************************)
(* Properties.  What the claims speak of, read off the last call.          *)
(***************************************************************************)
N == Len(kernel[1])

ClassIndices == 0..(N - 1)

\* The indices of the vocabulary, which find_hyponyms enumerates whatever
\* the base model is.
VocabularyIndices == 0..(Len(wnids) - 1)

EmbedCall == call.fn = "create_coarse_grained_model"

HypoCall == call.fn = "create_coarse_grained_model_hyponyms"

\* The ordered list of coarse categories of a head-building call.
Categories == call.args[1]

HeadReturned == (EmbedCall \/ HypoCall) /\ ret.exc = ""

\* Column j of the new head.
HeadColumn(j) == [f \in 1..Len(ret.head.weights) |-> ret.head.weights[f][j]]

\* Is the float x equal to 0?
IsZero(x) == x.num = 0 /\ x.den # 0

ValidSeeds == \A j \in 1..Len(Categories) : Categories[j] \in ClassIndices

\* The synset of class index c in the vocabulary, and of a resolvable name.
ClassSynset(c) == CHOOSE o \in Concepts : WNID(o) = wnids[c + 1]

Resolvable(name) == Synsets(name) # <<>>

\* The vocabulary's classes under a synset: reached by one or more hyponym
\* steps.
ClassesUnder(synset) ==
  {c \in VocabularyIndices :
     Reaches(hyponyms, synset, ClassSynset(c), Cardinality(Concepts))}

\* The classes a category of the last head-building call averages: the
\* entries of its seed's row that the slice [:k] keeps, or the classes under
\* its concept.
Selected(j) ==
  IF EmbedCall
  THEN LET row  == call.SCSM[NormIndex(Categories[j], N)]
           k    == call.args[2]
           stop == IF k < 0 THEN N + k ELSE k
       IN  {row[p] : p \in {q \in 1..N : q <= stop}}
  ELSE ClassesUnder(Synsets(Categories[j])[1])

\* C1: a category whose contributing set is empty (closure policy: no class
\* under the concept; seed policy: an empty selection) makes the build fail
\* with EmptyContributingSetError, and no head is returned whose column or
\* bias for that category is NaN or zero.
C1_EmptySetRaises ==
  /\ (\/ EmbedCall /\ ValidSeeds
      \/ HypoCall /\ \A j \in 1..Len(Categories) : Resolvable(Categories[j]))
       => ((\E j \in 1..Len(Categories) : Selected(j) = {})
             => ret.exc = "EmptyContributingSetError")
  /\ HeadReturned =>
       \A j \in 1..Len(Categories) :
         Selected(j) = {} =>
           /\ \A f \in 1..Len(kernel) :
                ~IsNaN(HeadColumn(j)[f]) /\ ~IsZero(HeadColumn(j)[f])
           /\ ~IsNaN(ret.head.biases[j]) /\ ~IsZero(ret.head.biases[j])

\* C2: embedding seed expansion fails with InvalidParameterError for every
\* k < 1 and every k > N, whatever the seeds.
C2_BadKRaises ==
  (EmbedCall /\ (call.args[2] < 1 \/ call.args[2] > N))
    => ret.exc = "InvalidParameterError"

\* C3: embedding seed expansion fails with InvalidParameterError when a seed
\* index lies outside [0, N), negative indices included.
C3_BadSeedRaises ==
  (EmbedCall /\ ~ValidSeeds) => ret.exc = "InvalidParameterError"

\* C4: every row i of the matrix create_SCSM returns starts with i.
C4_SelfRanksFirst ==
  call.fn = "create_SCSM" => \A i \in ClassIndices : ret.SCSM[i][1] = i

\* The similarity of classes i and j (0-based), from the weight columns.
Similarity(i, j) == CSM(kernel)[i + 1][j + 1]

\* The position of class a in a row of the ranking.
PositionIn(row, a) == CHOOSE p \in 1..Len(row) : row[p] = a

\* C5: every row i lists the classes by non-increasing similarity to i, and
\* two classes a < b other than i with equal similarity to i come a first.
C5_StableDescending ==
  call.fn = "create_SCSM" =>
    \A i \in ClassIndices :
      /\ \A p \in 1..(N - 1) :
           ~Less(Similarity(i, ret.SCSM[i][p]), Similarity(i, ret.SCSM[i][p + 1]))
      /\ \A a, b \in ClassIndices \ {i} :
           (a < b /\ Similarity(i, a) = Similarity(i, b))
             => PositionIn(ret.SCSM[i], a) < PositionIn(ret.SCSM[i], b)

\* The arithmetic mean of the base weight columns, and of the base biases,
\* of the classes in S (each class once).
RECURSIVE SetSum(_, _)
SetSum(S, val) ==
  IF S = {} THEN 0
  ELSE LET x == CHOOSE y \in S : TRUE IN val[x] + SetSum(S \ {x}, val)

MeanColumnOver(S) ==
  [f \in 1..Len(kernel) |->
     Divide(SetSum(S, [c \in S |-> kernel[f][c + 1]]), Cardinality(S))]

MeanBiasOver(S) ==
  Divide(SetSum(S, [c \in S |-> bias[c + 1]]), Cardinality(S))

\* The first k entries of the row of seed s in the SCSM the call computed.
FirstK(s, k) == {call.SCSM[s][p] : p \in 1..k}

\* C6: for seeds in [0, N) and 1 <= k <= N the contributing set is the first
\* k entries of the seed's row: k different classes, the seed among them,
\* and the head column is their mean.
C6_FirstKWithSeed ==
  (EmbedCall /\ ValidSeeds /\ call.args[2] \in 1..N) =>
    /\ ret.exc = ""
    /\ \A j \in 1..Len(Categories) :
         LET S == FirstK(Categories[j], call.args[2])
         IN  /\ Cardinality(S) = call.args[2]
             /\ Categories[j] \in S
             /\ HeadColumn(j) = MeanColumnOver(S)

\* C7: in every head returned, under either policy, the column and the bias
\* of a category with a non-empty contributing set are the arithmetic means
\* of the base columns and biases of the classes in that set.
C7_ColumnIsMean ==
  HeadReturned =>
    \A j \in 1..Len(Categories) :
      \A S \in {Selected(j)} :
        S # {} =>
          /\ HeadColumn(j) = MeanColumnOver(S)
          /\ ret.head.biases[j] = MeanBiasOver(S)

\* The example base model, seed 0 with k = 2: columns [1,0] and [1,1] with
\* biases 1 and 5 give the column [1, 1/2] and the bias 3.
C7_MeanOfTwo ==
  /\ EmbedCall /\ call.args = <<(<<0>>), 2>>
  /\ Selected(1) = {0, 2}
  /\ bias[1] = 1 /\ bias[3] = 5
  /\ ret.exc = ""
  /\ HeadColumn(1) = <<Real(1), Divide(1, 2)>>
  /\ ret.head.biases[1] = Real(3)

\* The head the same call builds for its j-th category alone.
HeadOfCategory(j) ==
  IF EmbedCall
  THEN create_coarse_grained_model(kernel, bias, call.SCSM,
                                   <<Categories[j]>>, call.args[2])
  ELSE create_coarse_grained_model_hyponyms(kernel, bias, hyponyms, wnids,
                                            <<Categories[j]>>)

\* C8: a head returned for C categories has C biases and C columns of as
\* many entries as the base layer has feature rows, and its j-th column and
\* bias are those built for the j-th category of the list, repeated entries
\* included.
C8_ColumnPerCategory ==
  HeadReturned =>
    /\ Len(ret.head.biases) = Len(Categories)
    /\ Len(ret.head.weights) = Len(kernel)
    /\ \A f \in 1..Len(kernel) : Len(ret.head.weights[f]) = Len(Categories)
    /\ \A first \in {j \in 1..Len(Categories) :
                      \A i \in 1..(j - 1) : Categories[i] # Categories[j]} :
         \A alone \in {HeadOfCategory(first)} :
           /\ alone.exc = ""
           /\ \A j \in {i \in 1..Len(Categories) : Categories[i] = Categories[first]} :
                /\ \A f \in 1..Len(kernel) :
                     ret.head.weights[f][j] = alone.value.weights[f][1]
                /\ ret.head.biases[j] = alone.value.biases[1]

\* Two different categories whose columns differ, so that their order shows.
C8_TwoDistinctColumns ==
  /\ HeadReturned
  /\ Len(Categories) = 2
  /\ Categories[1] # Categories[2]
  /\ HeadColumn(1) # HeadColumn(2)
  /\ ret.head.biases[1] # ret.head.biases[2]

\* The class ids find_hyponyms returned, as a set.
IdsReturned == {ret.ids.data[p] : p \in 1..Len(ret.ids.data)}

ResolvedCall == call.fn = "find_hyponyms" /\ Resolvable(call.args[1])

\* C9 as stated: the contributing set of a concept X holds the classes whose
\* concept is X itself or is reached from X by hyponym steps, and no other.
C9_ClosureWithConcept ==
  ResolvedCall =>
    /\ ret.exc = ""
    /\ IdsReturned =
         {c \in VocabularyIndices :
            \/ ClassSynset(c) = Synsets(call.args[1])[1]
            \/ c \in ClassesUnder(Synsets(call.args[1])[1])}

\* C9: find_hyponyms returns the classes whose concept is reached from X by
\* one or more hyponym steps, each once in ascending order, and no other; the
\* class of X itself is not among them.
C9_ClosureWithoutConcept ==
  ResolvedCall =>
    /\ ret.exc = ""
    /\ IdsReturned = ClassesUnder(Synsets(call.args[1])[1])
    /\ \A p \in 1..(Len(ret.ids.data) - 1) : ret.ids.data[p] < ret.ids.data[p + 1]
    /\ \A c \in IdsReturned : ClassSynset(c) # Synsets(call.args[1])[1]

\* A concept that is in the vocabulary itself and has classes under it, one
\* of them two hyponym steps away.
C9_ConceptInVocabulary ==
  /\ ResolvedCall
  /\ \E c \in VocabularyIndices : ClassSynset(c) = Synsets(call.args[1])[1]
  /\ \E c \in IdsReturned :
       ClassSynset(c) \notin hyponyms[Synsets(call.args[1])[1]]

\* Does the last call name a concept WordNet does not have?
UnknownName ==
  \/ call.fn = "find_hyponyms" /\ ~Resolvable(call.args[1])
  \/ HypoCall /\ \E j \in 1..Len(Categories) : ~Resolvable(Categories[j])

\* C10: whenever a requested name has no WordNet synset, find_hyponyms and
\* the head build around it fail with ConceptNotFoundError (the error kind
\* is the part of "ConceptNotFoundError identifying that name" an outcome
\* records; an outcome of another kind already contradicts the claim).
C10_ConceptNotFound == UnknownName => ret.exc = "ConceptNotFoundError"

\* C11: a head-building call either returns a head of C columns and biases
\* that are all means over non-empty contributing sets, or fails and returns
\* no head; a returned head never holds fewer than C categories nor an
\* invalid column.
C11_NoPartialSuccess ==
  (EmbedCall \/ HypoCall) =>
    \/ /\ ret.exc = ""
       /\ Len(ret.head.biases) = Len(Categories)
       /\ \A j \in 1..Len(Categories) :
            \A S \in {Selected(j)} :
              /\ S # {}
              /\ HeadColumn(j) = MeanColumnOver(S)
              /\ ret.head.biases[j] = MeanBiasOver(S)
    \/ ret.exc # "" /\ ret.head = NoHead

\* Does the base layer disagree with the vocabulary, or with itself, on the
\* number of classes?
Mismatched == Len(wnids) # N \/ Len(bias) # N

\* C12: the closure policy fails with DimensionMismatchError, before any
\* averaging, when the weight matrix's number of columns differs from the
\* vocabulary's size or from the bias vector's length.
C12_DimensionMismatch ==
  (HypoCall /\ Mismatched) => ret.exc = "DimensionMismatchError"

\* C13: the class similarity matrix create_SCSM computes before sorting is
\* symmetric, sim(i, j) = sim(j, i) for all classes i and j, zero-norm
\* columns included.
C13_SimilaritySymmetric ==
  (call.fn = "create_SCSM") =>
    \A csm \in {CSM(kernel)} :
      \A i, j \in 1..N : csm[i][j] = csm[j][i]

\* A base model with a zero-norm class column and with two other classes
\* whose similarity is neither 0 nor that of equal directions.
C13_ZeroNormAndOblique ==
  /\ call.fn = "create_SCSM"
  /\ \E i \in ClassIndices : \A f \in 1..Len(kernel) : kernel[f][i + 1] = 0
  /\ \E a, b \in ClassIndices :
       /\ a # b
       /\ ~IsZero(Similarity(a, b))
       /\ Similarity(a, b) # Similarity(a, a)

\* C14: a category whose contributing set is the single class i gets exactly
\* the base weight column i and the base bias i.
C14_SingletonIsIdentity ==
  HeadReturned =>
    \A j \in 1..Len(Categories) :
      \A S \in {Selected(j)} :
        \A i \in S :
          S = {i} =>
            /\ \A f \in 1..Len(kernel) : HeadColumn(j)[f] = Real(kernel[f][i + 1])
            /\ ret.head.biases[j] = Real(bias[i + 1])

\* Two categories, each of one class, the first of them the last class.
C14_TwoSingletons ==
  /\ HeadReturned
  /\ Len(Categories) = 2
  /\ Selected(1) = {N - 1}
  /\ Cardinality(Selected(2)) = 1
  /\ Selected(2) # Selected(1)

\* C15: no step changes the base model's last layer: after a head build
\* has returned or failed, and after any other call, kernel and bias hold the
\* values they had before.
C15_BaseLayerUnchanged == [][kernel' = kernel /\ bias' = bias]_vars

\* A seed build that fails on its second category, after the first has been
\* averaged, on the example base model.
C15_FailedOnSecondCategory ==
  /\ EmbedCall
  /\ Len(Categories) = 2
  /\ Categories[1] \in ClassIndices
  /\ Categories[2] \notin ClassIndices
  /\ ret.exc = "IndexError"
  /\ kernel = KernelOf(ExampleClasses)
  /\ bias = BiasOf(ExampleClasses)

\* The coarse label of class index i: 0 under cat, else 1 under dog, else 2.
Label(i) ==
  IF i \in ClassesUnder(Synsets("cat")[1]) THEN 0
  ELSE IF i \in ClassesUnder(Synsets("dog")[1]) THEN 1
  ELSE 2

\* C16: map_classes gives every predicted class index the one label of that
\* index: 0 if it is in the closure set of cat, otherwise 1 if it is in the
\* closure set of dog, otherwise 2; an index in both sets gets 0.
C16_CatThenDogThenOther ==
  (call.fn = "map_classes" /\ call.args[1] # <<>>) =>
    /\ ret.exc = ""
    /\ Len(ret.mapped) = Len(call.args[1])
    /\ \A p \in 1..Len(call.args[1]) : ret.mapped[p] = Label(call.args[1][p])

\* Predictions of a class that is both under cat and under dog, labelled 0,
\* and of a class under dog only.
C16_BothCatAndDog ==
  /\ call.fn = "map_classes"
  /\ Len(call.args[1]) = 2
  /\ call.args[1][1] \in ClassesUnder(Synsets("cat")[1])
                           \cap ClassesUnder(Synsets("dog")[1])
  /\ ret.mapped[1] = 0
  /\ ret.mapped[2] = 1

====
